---- MODULE Spec2Model ----
(***************************************************************************)
(* A model of chapter_2/context_managers.py and chapter_2/assertions.py.   *)
(*                                                                         *)
(* The two files are a script of independent snippets.  `snippet` selects  *)
(* the one a behaviour runs:                                               *)
(*   "with"            one scope over test.txt, written as one of the four *)
(*                     constructs of context_managers.py (`kind`)          *)
(*   "calls"           direct __enter__ / __exit__ / write calls, in any  *)
(*                     order, on one ManagedFile instance                  *)
(*   "indenter"        nested with-blocks on one Indenter instance        *)
(*   "delete_product"  one call of delete_product                         *)
(*                                                                         *)
(* Exceptions are named after the error taxonomy: open() failing is an    *)
(* AcquisitionError, a write failing an OperationError, close() failing a *)
(* ReleaseError (all three are OSError in CPython).  Errors the           *)
(* interpreter itself raises keep their Python names.                     *)
(***************************************************************************)
EXTENDS Integers, Sequences, FiniteSets, TLC

VARIABLES
    snippet,    \* which snippet of the script runs
    kind,       \* the scope construct: with_open, try_finally, ManagedFile, managed_file
    body,       \* the texts the scope body writes, in call order
    before,     \* content of the target before the scope
    todo,       \* body writes not yet executed
    pc,         \* position in the scope: enter, body, exit, done
    files,      \* the file objects created by open(), by handle
    disk,       \* content of the target test.txt
    self_file,  \* ManagedFile: self.file (<<>> = attribute not set)
    gen_f,      \* managed_file: the generator's local f (<<>> = unbound)
    f,          \* the caller's f (<<>> = unbound)
    exc,        \* the exception propagating out of the scope body
    observed,   \* what the caller observes once control has left the scope
    trace,      \* events of the scope, in order
    ncalls,     \* "calls": number of direct calls made
    last,       \* "calls": the last direct call and its outcome
    level,      \* Indenter: self.level
    blocks,     \* Indenter: the with-blocks entered and not yet exited
    enters,     \* Indenter: number of __enter__ calls
    exits,      \* Indenter: number of __exit__ calls
    printed,    \* Indenter: the last line printed
    dp_pc,      \* delete_product: call, returned
    dp_raised,  \* delete_product: the exception it raised
    deletes     \* delete_product: the Product.delete() calls made

vars == <<snippet, kind, body, before, todo, pc, files, disk, self_file, gen_f,
          f, exc, observed, trace, ncalls, last, level, blocks, enters, exits,
          printed, dp_pc, dp_raised, deletes>>

scopeVars == <<kind, body, before, todo, pc, files, disk, self_file, gen_f,
               f, exc, observed, trace>>
callVars == <<ncalls, last>>
indentVars == <<level, blocks, enters, exits, printed>>
deleteVars == <<dp_pc, dp_raised, deletes>>

----------------------------------------------------------------------------
(* Bounds *)

MaxWrites == 2
MaxCalls == 4
MaxEnters == 3

Texts == {<<"H", "i">>, <<"!">>}
PriorContents == {<<>>, <<"o", "l", "d">>}
Bodies == UNION {[1..n -> Texts] : n \in 0..MaxWrites}
Kinds == {"with_open", "try_finally", "ManagedFile", "managed_file"}
ProductIds == {"p1", "p2"}

None == "none"

----------------------------------------------------------------------------
(* The file object: open(name, mode), write(text), close() *)

\* What a flush leaves on the target: 'w' writes from offset 0, 'a' at the end.
Flush(dk, file) ==
    IF file.mode = "a" THEN dk \o file.buf
    ELSE file.buf \o SubSeq(dk, Len(file.buf) + 1, Len(dk))

\* open(name, mode): a new file object; 'w' truncates the target.
open(fs, dk, mode, ok) ==
    IF ok
    THEN [raised |-> None,
          files  |-> Append(fs, [closed |-> FALSE, buf |-> <<>>, mode |-> mode]),
          disk   |-> IF mode = "w" THEN <<>> ELSE dk,
          ret    |-> Len(fs) + 1,
          ev     |-> <<"open">>]
    ELSE [raised |-> "AcquisitionError", files |-> fs, disk |-> dk, ret |-> 0,
          ev |-> <<"open_failed">>]

\* file.write(text): buffered; ValueError on a closed file.
write(fs, h, text, ok) ==
    IF fs[h].closed
    THEN [raised |-> "ValueError", files |-> fs, ev |-> <<"write_failed">>]
    ELSE IF ok
    THEN [raised |-> None,
          files  |-> [fs EXCEPT ![h].buf = @ \o text],
          ev     |-> <<"write">>]
    ELSE [raised |-> "OperationError", files |-> fs, ev |-> <<"write_failed">>]

\* file.close(): flushes, then closes; a no-op on a closed file.  When the
\* flush fails the file is closed all the same and the error is raised.
close(fs, dk, h, ok) ==
    IF fs[h].closed
    THEN [raised |-> None, files |-> fs, disk |-> dk, ev |-> <<"close">>]
    ELSE [raised |-> IF ok THEN None ELSE "ReleaseError",
          files  |-> [fs EXCEPT ![h].closed = TRUE, ![h].buf = <<>>],
          disk   |-> IF ok THEN Flush(dk, fs[h]) ELSE dk,
          ev     |-> IF ok THEN <<"close">> ELSE <<"close", "close_raised">>]

----------------------------------------------------------------------------
(* The four scope constructs.  An enter yields                             *)
(*   [raised, files, disk, self_file, gen_f, ret, ev]                      *)
(* and an exit [raised, suppress, files, disk, ev]; ev holds "release"    *)
(* when the construct's release step (the __exit__ body, the finally      *)
(* block) was entered.                                                    *)

\* with open('test.txt', 'w') as f: the file object is its own manager.
with_open_enter(fs, dk, ok) ==
    LET r == open(fs, dk, "w", ok)
    IN  [raised |-> r.raised, files |-> r.files, disk |-> r.disk,
         self_file |-> <<>>, gen_f |-> <<>>, ret |-> r.ret, ev |-> r.ev]

\* The file object's own __exit__ calls close() and returns None.
with_open_exit(fs, dk, h, exc_type, ok) ==
    LET r == close(fs, dk, h, ok)
    IN  [raised |-> r.raised, suppress |-> FALSE, files |-> r.files,
         disk |-> r.disk, ev |-> <<"release">> \o r.ev]

\* f = open('test.txt', 'w'), before the try.
try_finally_enter(fs, dk, ok) ==
    LET r == open(fs, dk, "w", ok)
    IN  [raised |-> r.raised, files |-> r.files, disk |-> r.disk,
         self_file |-> <<>>, gen_f |-> <<>>, ret |-> r.ret, ev |-> r.ev]

\* finally: f.close()
try_finally_exit(fs, dk, h, exc_type, ok) ==
    LET r == close(fs, dk, h, ok)
    IN  [raised |-> r.raised, suppress |-> FALSE, files |-> r.files,
         disk |-> r.disk, ev |-> <<"release">> \o r.ev]

\* ManagedFile.__init__ sets only self.name: self.file is not an attribute
\* until __enter__ has assigned it.
ManagedFile_init == <<>>


\* Faulty variant: the file opened in append mode ('a' for 'w').
ManagedFile_enter_append(fs, dk, sf, ok) ==
    LET r == open(fs, dk, "a", ok)
    IN  [raised |-> r.raised, files |-> r.files, disk |-> r.disk,
         self_file |-> IF r.raised = None THEN <<r.ret>> ELSE sf,
         gen_f |-> <<>>, ret |-> r.ret, ev |-> r.ev]

\* ManagedFile.__enter__: self.file = open(self.name, 'w'); return self.file
ManagedFile_enter(fs, dk, sf, ok) ==
    LET r == open(fs, dk, "w", ok)
    IN  [raised |-> r.raised, files |-> r.files, disk |-> r.disk,
         self_file |-> IF r.raised = None THEN <<r.ret>> ELSE sf,
         gen_f |-> <<>>, ret |-> r.ret, ev |-> r.ev]


\* Faulty variant: __exit__ ends with `return True`.
ManagedFile_exit_suppress(fs, dk, sf, exc_type, ok) ==
    IF sf = <<>>
    THEN [raised |-> "AttributeError", suppress |-> FALSE, files |-> fs,
          disk |-> dk, ev |-> <<"release">>]
    ELSE LET r == close(fs, dk, sf[1], ok)
         IN  [raised |-> r.raised, suppress |-> TRUE, files |-> r.files,
              disk |-> r.disk, ev |-> <<"release">> \o r.ev]

\* Faulty variant: __exit__ tests self.file and forgets the close() call.
ManagedFile_exit_noclose(fs, dk, sf, exc_type, ok) ==
    IF sf = <<>>
    THEN [raised |-> "AttributeError", suppress |-> FALSE, files |-> fs,
          disk |-> dk, ev |-> <<"release">>]
    ELSE [raised |-> None, suppress |-> FALSE, files |-> fs, disk |-> dk,
          ev |-> <<"release">>]

\* ManagedFile.__exit__: if self.file: self.file.close().  Reading an
\* attribute that was never set raises AttributeError; a file object is
\* truthy; the method returns None, which suppresses nothing.
ManagedFile_exit(fs, dk, sf, exc_type, ok) ==
    IF sf = <<>>
    THEN [raised |-> "AttributeError", suppress |-> FALSE, files |-> fs,
          disk |-> dk, ev |-> <<"release">>]
    ELSE LET r == close(fs, dk, sf[1], ok)
         IN  [raised |-> r.raised, suppress |-> FALSE, files |-> r.files,
              disk |-> r.disk, ev |-> <<"release">> \o r.ev]

\* managed_file, from its start to the yield.  When open() raises, the
\* finally block runs with f unbound: f.close() raises UnboundLocalError,
\* which replaces the error of open().
managed_file_start(fs, dk, ok) ==
    LET r == open(fs, dk, "w", ok)
    IN  IF r.raised = None
        THEN [raised |-> None, files |-> r.files, disk |-> r.disk,
              self_file |-> <<>>, gen_f |-> <<r.ret>>, ret |-> r.ret,
              ev |-> r.ev]
        ELSE [raised |-> "UnboundLocalError", files |-> r.files,
              disk |-> r.disk, self_file |-> <<>>, gen_f |-> <<>>,
              ret |-> 0, ev |-> r.ev \o <<"release">>]


\* Faulty variant: no try/finally around the yield, so f.close() runs only when
\* the generator is resumed by next().
managed_file_resume_nofinally(fs, dk, gf, thrown, ok) ==
    IF thrown = None
    THEN LET r == close(fs, dk, gf[1], ok)
         IN  [raised |-> r.raised, files |-> r.files, disk |-> r.disk,
              ev |-> <<"release">> \o r.ev]
    ELSE [raised |-> thrown, files |-> fs, disk |-> dk, ev |-> <<>>]

\* managed_file, resumed at the yield (by next() or by throw(thrown)): the
\* finally block closes f; then the generator ends (raised = None) or the
\* thrown exception goes on, unless close() raised.
managed_file_resume(fs, dk, gf, thrown, ok) ==
    LET r == close(fs, dk, gf[1], ok)
    IN  [raised |-> IF r.raised # None THEN r.raised ELSE thrown,
         files |-> r.files, disk |-> r.disk, ev |-> <<"release">> \o r.ev]

\* @contextmanager's __exit__ around the resumed generator: the generator
\* ending after a throw suppresses the exception, the thrown exception
\* coming back is left to the with statement, any other exception is raised.
contextmanager_exit(g, thrown) ==
    [raised   |-> IF g.raised # None /\ g.raised # thrown THEN g.raised ELSE None,
     suppress |-> thrown # None /\ g.raised = None,
     files |-> g.files, disk |-> g.disk, ev |-> g.ev]

managed_file_exit(fs, dk, gf, exc_type, ok) ==
    contextmanager_exit(managed_file_resume(fs, dk, gf, exc_type, ok), exc_type)

Enter(k, fs, dk, sf, ok) ==
    CASE k = "with_open"    -> with_open_enter(fs, dk, ok)
      [] k = "try_finally"  -> try_finally_enter(fs, dk, ok)
      [] k = "ManagedFile"  -> ManagedFile_enter(fs, dk, sf, ok)
      [] k = "managed_file" -> managed_file_start(fs, dk, ok)

Exit(k, fs, dk, sf, gf, h, exc_type, ok) ==
    CASE k = "with_open"    -> with_open_exit(fs, dk, h, exc_type, ok)
      [] k = "try_finally"  -> try_finally_exit(fs, dk, h, exc_type, ok)
      [] k = "ManagedFile"  -> ManagedFile_exit(fs, dk, sf, exc_type, ok)
      [] k = "managed_file" -> managed_file_exit(fs, dk, gf, exc_type, ok)

----------------------------------------------------------------------------
(* One scope: the with statement (or try/finally) around the body writes *)

\* Entering the scope.  An exception of the enter step goes straight to the
\* caller: neither the body nor the manager's __exit__ runs.
ScopeEnter ==
    /\ snippet = "with"
    /\ pc = "enter"
    /\ \E ok \in BOOLEAN :
         LET r == Enter(kind, files, disk, self_file, ok)
         IN  /\ files' = r.files
             /\ disk' = r.disk
             /\ self_file' = r.self_file
             /\ gen_f' = r.gen_f
             /\ trace' = trace \o r.ev
             /\ IF r.raised = None
                THEN /\ f' = <<r.ret>>
                     /\ pc' = IF todo = <<>> THEN "exit" ELSE "body"
                     /\ observed' = observed
                ELSE /\ f' = f
                     /\ pc' = "done"
                     /\ observed' = r.raised
    /\ UNCHANGED <<snippet, kind, body, before, todo, exc>>
    /\ UNCHANGED <<callVars, indentVars, deleteVars>>

\* The next f.write(text) of the body; a write that raises ends the body.
ScopeWrite ==
    /\ snippet = "with"
    /\ pc = "body"
    /\ \E ok \in BOOLEAN :
         LET r == write(files, f[1], Head(todo), ok)
         IN  /\ files' = r.files
             /\ trace' = trace \o r.ev
             /\ IF r.raised = None
                THEN /\ todo' = Tail(todo)
                     /\ exc' = exc
                     /\ pc' = IF Tail(todo) = <<>> THEN "exit" ELSE "body"
                ELSE /\ todo' = todo
                     /\ exc' = r.raised
                     /\ pc' = "exit"
    /\ UNCHANGED <<snippet, kind, body, before, disk, self_file, gen_f, f, observed>>
    /\ UNCHANGED <<callVars, indentVars, deleteVars>>

\* Leaving the scope: the exit step runs with the body's exception (or
\* none).  An exception raised by the exit step replaces the body's; else
\* the body's exception goes on unless the exit step suppressed it.
ScopeExit ==
    /\ snippet = "with"
    /\ pc = "exit"
    /\ \E ok \in BOOLEAN :
         LET r == Exit(kind, files, disk, self_file, gen_f, f[1], exc, ok)
         IN  /\ files' = r.files
             /\ disk' = r.disk
             /\ trace' = trace \o r.ev
             /\ observed' = IF r.raised # None THEN r.raised
                            ELSE IF r.suppress THEN None ELSE exc
    /\ pc' = "done"
    /\ UNCHANGED <<snippet, kind, body, before, todo, self_file, gen_f, f, exc>>
    /\ UNCHANGED <<callVars, indentVars, deleteVars>>

----------------------------------------------------------------------------
(* Direct calls on one ManagedFile instance, in any order *)

NoCall == [op |-> "none", raised |-> None, acquired |-> FALSE, h |-> 0,
           wasClosed |-> FALSE, ev |-> <<>>]

\* mf.__enter__()
CallEnter ==
    /\ snippet = "calls"
    /\ ncalls < MaxCalls
    /\ \E ok \in BOOLEAN :
         LET r == ManagedFile_enter(files, disk, self_file, ok)
         IN  /\ files' = r.files
             /\ disk' = r.disk
             /\ self_file' = r.self_file
             /\ last' = [op |-> "enter", raised |-> r.raised,
                         acquired |-> self_file # <<>>, h |-> r.ret,
                         wasClosed |-> FALSE, ev |-> r.ev]
    /\ ncalls' = ncalls + 1
    /\ UNCHANGED <<snippet, kind, body, before, todo, pc, gen_f, f, exc, observed, trace>>
    /\ UNCHANGED <<indentVars, deleteVars>>

\* mf.__exit__(exc_type, exc_val, exc_tb)
CallExit ==
    /\ snippet = "calls"
    /\ ncalls < MaxCalls
    /\ \E exc_type \in {None, "OperationError"}, ok \in BOOLEAN :
         LET r == ManagedFile_exit(files, disk, self_file, exc_type, ok)
         IN  /\ files' = r.files
             /\ disk' = r.disk
             /\ last' = [op |-> "exit", raised |-> r.raised,
                         acquired |-> self_file # <<>>,
                         h |-> IF self_file = <<>> THEN 0 ELSE self_file[1],
                         wasClosed |-> IF self_file = <<>> THEN FALSE
                                       ELSE files[self_file[1]].closed,
                         ev |-> r.ev]
    /\ ncalls' = ncalls + 1
    /\ UNCHANGED <<snippet, kind, body, before, todo, pc, self_file, gen_f, f, exc,
                   observed, trace>>
    /\ UNCHANGED <<indentVars, deleteVars>>

\* h.write(text) on a handle an earlier __enter__ returned
CallWrite ==
    /\ snippet = "calls"
    /\ ncalls < MaxCalls
    /\ \E h \in DOMAIN files, text \in Texts, ok \in BOOLEAN :
         LET r == write(files, h, text, ok)
         IN  /\ files' = r.files
             /\ last' = [op |-> "write", raised |-> r.raised,
                         acquired |-> self_file # <<>>, h |-> h,
                         wasClosed |-> files[h].closed, ev |-> r.ev]
    /\ ncalls' = ncalls + 1
    /\ UNCHANGED <<snippet, kind, body, before, todo, pc, disk, self_file, gen_f, f,
                   exc, observed, trace>>
    /\ UNCHANGED <<indentVars, deleteVars>>

----------------------------------------------------------------------------
(* Indenter *)

Spaces(n) == [i \in 1..n |-> " "]

\* Indenter.__init__: self.level = 0
Indenter_init == 0

\* Indenter.__enter__: self.level += 1
Indenter_enter(lv) == lv + 1


\* Faulty variant: the level is restored only when the block ends normally.
Indenter_exit_skip_on_error(lv, exc_type) ==
    IF exc_type = None THEN lv - 1 ELSE lv

\* Indenter.__exit__: self.level -= 1, whatever exc_type is
Indenter_exit(lv, exc_type) == lv - 1

\* Indenter.print: ' ' * self.level + msg
Indenter_print(lv, msg) == Spaces(lv) \o msg

\* with indent: (entering a block on the instance)
IndentEnter ==
    /\ snippet = "indenter"
    /\ enters < MaxEnters
    /\ level' = Indenter_enter(level)
    /\ blocks' = Append(blocks, "with")
    /\ enters' = enters + 1
    /\ UNCHANGED <<snippet, exits, printed>>
    /\ UNCHANGED <<scopeVars, callVars, deleteVars>>

\* The innermost block ends, by completion or by a raised failure.
IndentExit ==
    /\ snippet = "indenter"
    /\ blocks # <<>>
    /\ \E exc_type \in {None, "OperationError"} :
         level' = Indenter_exit(level, exc_type)
    /\ blocks' = SubSeq(blocks, 1, Len(blocks) - 1)
    /\ exits' = exits + 1
    /\ UNCHANGED <<snippet, enters, printed>>
    /\ UNCHANGED <<scopeVars, callVars, deleteVars>>

\* indent.print(msg)
IndentPrint ==
    /\ snippet = "indenter"
    /\ \E msg \in Texts : printed' = Indenter_print(level, msg)
    /\ UNCHANGED <<snippet, level, blocks, enters, exits>>
    /\ UNCHANGED <<scopeVars, callVars, deleteVars>>

----------------------------------------------------------------------------
(* delete_product *)

\* Truth value of a Python object: None is false.
Truthy(v) == v = "True"

\* Store.has_product_id: its body is `pass`, so it returns None.
has_product_id(prod_id) == "None"

\* The Product.delete() calls made and the exception raised by
\* delete_product(product_id, user), with assertions enabled (debug) or
\* compiled out, for a user whose is_admin() returns admin.
delete_product(product_id, admin, debug) ==
    LET has == has_product_id(product_id)
        del(line) == [product_id |-> product_id, line |-> line,
                      is_admin |-> Truthy(admin), has_product |-> Truthy(has),
                      asserts |-> debug]
    IN  IF debug /\ ~Truthy(admin)
        THEN [raised |-> "AssertionError", deletes |-> <<>>]
        ELSE IF debug /\ ~Truthy(has)
        THEN [raised |-> "AssertionError", deletes |-> <<>>]
        ELSE IF ~Truthy(admin)
        THEN [raised |-> "AuthError", deletes |-> <<del("first")>>]
        ELSE IF ~Truthy(has)
        THEN [raised |-> "ValueError", deletes |-> <<del("first")>>]
        ELSE [raised |-> None, deletes |-> <<del("first"), del("second")>>]

DeleteProduct ==
    /\ snippet = "delete_product"
    /\ dp_pc = "call"
    /\ \E product_id \in ProductIds, admin \in {"True", "False"}, debug \in BOOLEAN :
         LET r == delete_product(product_id, admin, debug)
         IN  /\ dp_raised' = r.raised
             /\ deletes' = r.deletes
    /\ dp_pc' = "returned"
    /\ UNCHANGED snippet
    /\ UNCHANGED <<scopeVars, callVars, indentVars>>

----------------------------------------------------------------------------

Init ==
    /\ snippet \in {"with", "calls", "indenter", "delete_product"}
    /\ kind \in IF snippet = "with" THEN Kinds ELSE {"ManagedFile"}
    /\ body \in IF snippet = "with" THEN Bodies ELSE {<<>>}
    /\ before \in IF snippet \in {"with", "calls"} THEN PriorContents ELSE {<<>>}
    /\ todo = body
    /\ disk = before
    /\ pc = "enter"
    /\ files = <<>>
    /\ self_file = ManagedFile_init
    /\ gen_f = <<>>
    /\ f = <<>>
    /\ exc = None
    /\ observed = None
    /\ trace = <<>>
    /\ ncalls = 0
    /\ last = NoCall
    /\ level = Indenter_init
    /\ blocks = <<>>
    /\ enters = 0
    /\ exits = 0
    /\ printed = <<>>
    /\ dp_pc = "call"
    /\ dp_raised = None
    /\ deletes = <<>>

Next ==
    \/ ScopeEnter
    \/ ScopeWrite
    \/ ScopeExit
    \/ CallEnter
    \/ CallExit
    \/ CallWrite
    \/ IndentEnter
    \/ IndentExit
    \/ IndentPrint
    \/ DeleteProduct

Spec == Init /\ [][Next]_vars

----------------------------------------------------------------------------
(* Properties *)

Count(seq, e) == Cardinality({i \in DOMAIN seq : seq[i] = e})
Has(seq, e) == \E i \in DOMAIN seq : seq[i] = e

RECURSIVE Concat(_)
Concat(texts) == IF texts = <<>> THEN <<>> ELSE Head(texts) \o Concat(Tail(texts))

\* The class-based and the generator-based scope.
Managed == snippet = "with" /\ kind \in {"ManagedFile", "managed_file"}

Entered == f # <<>>
AcquisitionFailed == Has(trace, "open_failed")
BodyRaised == exc = "OperationError"
ReleaseRaised == Has(trace, "close_raised")

\* C1: in a ManagedFile or managed_file scope that was entered, no close
\* happens while the body runs, and once control has left the scope the
\* release step has run exactly once, close() was called exactly once, the
\* file is closed and no write (complete or failed) follows the close,
\* whether the body completed or a write raised.
C1_ReleaseExactlyOnce ==
    (Managed /\ Entered) =>
        /\ pc \in {"body", "exit"} =>
               /\ Count(trace, "close") = 0
               /\ ~files[f[1]].closed
        /\ pc = "done" =>
               /\ Count(trace, "release") = 1
               /\ Count(trace, "close") = 1
               /\ files[f[1]].closed
               /\ \A i, j \in DOMAIN trace :
                      (trace[i] = "close" /\ j > i)
                          => trace[j] \notin {"write", "write_failed"}

C1_Witness ==
    /\ Managed /\ kind = "managed_file" /\ pc = "done"
    /\ Has(trace, "write") /\ Has(trace, "write_failed")
    /\ Count(trace, "close") = 1

\* C2: when the body of a ManagedFile or managed_file scope raised an
\* OperationError and close() succeeded, close() was called exactly once
\* and the caller observes that OperationError.
C2_OriginalErrorObserved ==
    (Managed /\ pc = "done" /\ BodyRaised /\ ~ReleaseRaised) =>
        /\ Count(trace, "close") = 1
        /\ observed = "OperationError"

C2_Witness ==
    /\ Managed /\ kind = "ManagedFile" /\ pc = "done"
    /\ BodyRaised /\ ~ReleaseRaised
    /\ observed = "OperationError"
    /\ files[f[1]].closed

\* C3: when open() fails on entering a ManagedFile or managed_file scope,
\* the caller observes the AcquisitionError.
C3_AcquisitionErrorObserved ==
    (Managed /\ AcquisitionFailed) => observed = "AcquisitionError"

\* C4: when open() fails on entering a ManagedFile or managed_file scope,
\* no body write runs, the release step is not entered and no close is made.
C4_NoReleaseAfterFailedEnter ==
    (Managed /\ AcquisitionFailed) =>
        /\ ~Has(trace, "write") /\ ~Has(trace, "write_failed")
        /\ ~Has(trace, "release")
        /\ ~Has(trace, "close")

\* C5: when the body raised an OperationError and close() raised too, the
\* caller observes the OperationError.
C5_ReleaseFailureDoesNotMask ==
    (Managed /\ pc = "done" /\ BodyRaised /\ ReleaseRaised) =>
        observed = "OperationError"

\* C6: __exit__ on a ManagedFile instance that holds no file raises nothing
\* and closes nothing.
C6_ExitWithoutResourceIsNoOp ==
    (snippet = "calls" /\ last.op = "exit" /\ ~last.acquired) =>
        /\ last.raised = None
        /\ ~Has(last.ev, "close")

InstState ==
    IF self_file = <<>> THEN "Unopened"
    ELSE IF files[self_file[1]].closed THEN "Closed" ELSE "Open"

\* C7 as stated: the ManagedFile instance only moves Unopened -> Open ->
\* Closed, it is opened at most once, Closed is terminal, and no write on a
\* closed handle succeeds.
C7_InstanceOneShot ==
    [][snippet = "calls" =>
          /\ InstState = "Closed" => InstState' = "Closed"
          /\ InstState = "Open" => InstState' \in {"Open", "Closed"}
          /\ Len(files') <= 1
          /\ (last'.op = "write" /\ last'.wasClosed) => last'.raised # None
      ]_vars

\* C7 as amended: each handle a ManagedFile.__enter__ returns only moves
\* Open -> Closed.  It is open when returned and becomes the instance's
\* file; once closed it stays closed and takes no more text; __exit__ on an
\* instance that holds a file leaves that file closed; a write on a closed
\* handle raises ValueError.
C7_HandleOneShot ==
    [][snippet = "calls" =>
          /\ \A h \in DOMAIN files :
                 /\ h \in DOMAIN files'
                 /\ files[h].closed =>
                        (files'[h].closed /\ files'[h].buf = files[h].buf)
          /\ \A h \in DOMAIN files' \ DOMAIN files :
                 /\ ~files'[h].closed
                 /\ last'.op = "enter" /\ last'.h = h
                 /\ self_file' = <<h>>
          /\ (last'.op = "exit" /\ last'.acquired) =>
                 files'[self_file'[1]].closed
          /\ (last'.op = "write" /\ last'.wasClosed) =>
                 last'.raised = "ValueError"
      ]_vars

\* A second handle was opened on an instance whose first one is closed, and
\* a write on a closed handle has just been refused.
C7_Witness ==
    /\ snippet = "calls"
    /\ Len(files) >= 2
    /\ files[1].closed
    /\ InstState = "Open"
    /\ last.op = "write" /\ last.wasClosed /\ last.raised = "ValueError"

\* C8: on one Indenter, the level always equals the number of blocks
\* entered and not yet exited, is never negative, and is back at its
\* initial value whenever every enter has been matched by an exit.
C8_LevelIsNestingDepth ==
    snippet = "indenter" =>
        /\ level = Len(blocks)
        /\ level = enters - exits
        /\ level >= 0
        /\ enters = exits => level = Indenter_init

C8_Witness ==
    /\ snippet = "indenter"
    /\ enters = MaxEnters /\ exits = MaxEnters
    /\ level = 0
    /\ printed # <<>>

\* C9: when a scope has completed normally, the target holds exactly the
\* texts of the body's writes, concatenated in call order, whatever it held
\* before, and the file is closed.
C9_FinalContent ==
    (snippet = "with" /\ pc = "done" /\ Entered /\ exc = None /\ observed = None) =>
        /\ disk = Concat(body)
        /\ files[f[1]].closed

C9_Witness ==
    /\ snippet = "with" /\ kind = "ManagedFile" /\ pc = "done"
    /\ exc = None /\ observed = None
    /\ before = <<"o", "l", "d">>
    /\ body = <<<<"H", "i">>, <<"!">>>>
    /\ disk = <<"H", "i", "!">>
    /\ files[f[1]].closed

\* C10: every Product.delete() made by delete_product is made for a user
\* whose is_admin() is true and a product whose has_product_id() is true,
\* with assertions enabled and with assertions compiled out.
C10_DeleteOnlyWhenValidated ==
    snippet = "delete_product" =>
        \A i \in DOMAIN deletes :
            deletes[i].is_admin /\ deletes[i].has_product

====
